---- MODULE Spec2Model ----
(***************************************************************************)
(* Model of Code_for_thesis.py: the file reader, the series builder, the   *)
(* colour registry, the plot renderer and the tkinter shell (class View).  *)
(*                                                                         *)
(* Strings that the program takes apart (paths) are sequences of tokens:   *)
(* "/" and "." are the separator and the dot, every other token is a run   *)
(* of ordinary characters.  The empty path "" is <<>>.  Messages built     *)
(* with f-strings are the sequence of their literal and interpolated       *)
(* parts.  Floats are integers counting tenths.                            *)
(***************************************************************************)
EXTENDS Integers, Sequences, FiniteSets, TLC

VARIABLES selected_file, output_file, working_dir, input_dialog, output_dialog,
          legend_position, handler, path, messages, stdout, raised, calls,
          failure, fn, args, ret

vars == <<selected_file, output_file, working_dir, input_dialog, output_dialog,
          legend_position, handler, path, messages, stdout, raised, calls,
          failure, fn, args, ret>>

shell_vars == <<selected_file, output_file, working_dir, input_dialog,
                output_dialog, legend_position, handler, path, messages,
                stdout, raised, calls, failure>>

call_vars == <<fn, args, ret>>

-----------------------------------------------------------------------------
(* Bounds of the model.                                                    *)

MaxRows == 2

MaxPoints == 4

MaxSeries == 3

MaxConfig == 2

-----------------------------------------------------------------------------
(* Exceptions and results.                                                 *)

None == [type |-> "None", message |-> <<>>]

PlottingError(message) == [type |-> "PlottingError", message |-> message]

Exception(type) == [type |-> type, message |-> <<>>]

Return(value) == [ok |-> TRUE, value |-> value, exc |-> None]

Raise(exc) == [ok |-> FALSE, value |-> <<>>, exc |-> exc]

-----------------------------------------------------------------------------
(* Configuration, lines 11-30.                                             *)

raw_code_colors ==
    << <<"Q1ta", <<130, 130, 130>> >>,
       <<"Q3a",  <<130, 130, 130>> >>,
       <<"Q7u",  <<43, 133, 161>> >>,
       <<"Q8i",  <<194, 158, 215>> >>,
       <<"Q8c",  <<255, 207, 255>> >>,
       <<"Q9w",  <<79, 122, 56>> >>,
       <<"eQw",  <<255, 127, 127>> >> >>

\* i/255. : a colour component becomes the fraction <<i, 255>>
ScaleColors(colors) ==
    [k \in 1..Len(colors) |->
        <<colors[k][1], [i \in 1..3 |-> <<colors[k][2][i], 255>>]>>]

-----------------------------------------------------------------------------
(* os.path on POSIX.                                                       *)

\* the value () that a cancelled tk dialog can return instead of ""
EMPTY_TUPLE == <<"()">>

IsStr(p) == p # EMPTY_TUPLE

\* str.rfind, 1-based: 0 when ch does not occur
rfind(p, ch) ==
    IF \E i \in 1..Len(p) : p[i] = ch
    THEN CHOOSE i \in 1..Len(p) :
            p[i] = ch /\ \A j \in (i+1)..Len(p) : p[j] # ch
    ELSE 0

\* variant: the extension is left on the path
splitext_keeps_extension(p) == <<p, <<>>>>

\* os.path.splitext: the last dot after the last separator starts the
\* extension, unless only dots precede it in the file name
splitext(p) ==
    LET sepIndex == rfind(p, "/")
        dotIndex == rfind(p, ".")
    IN  IF /\ dotIndex > sepIndex
           /\ \E i \in (sepIndex+1)..(dotIndex-1) : p[i] # "."
        THEN <<SubSeq(p, 1, dotIndex-1), SubSeq(p, dotIndex, Len(p))>>
        ELSE <<p, <<>>>>

RECURSIVE rstrip(_, _)
rstrip(p, ch) ==
    IF p # <<>> /\ p[Len(p)] = ch THEN rstrip(SubSeq(p, 1, Len(p)-1), ch) ELSE p

\* os.path.dirname
dirname(p) ==
    LET head == SubSeq(p, 1, rfind(p, "/"))
    IN  IF head # <<>> /\ \E i \in 1..Len(head) : head[i] # "/"
        THEN rstrip(head, "/")
        ELSE head

-----------------------------------------------------------------------------
(* class Colors, lines 57-77.                                              *)

\* collections.OrderedDict(colors): a repeated key keeps its first position
\* and takes the last value
RECURSIVE OrderedDict(_)
OrderedDict(colors) ==
    IF colors = <<>> THEN <<>>
    ELSE LET front == OrderedDict(SubSeq(colors, 1, Len(colors)-1))
             item  == colors[Len(colors)]
         IN  IF \E k \in 1..Len(front) : front[k][1] = item[1]
             THEN [k \in 1..Len(front) |->
                     IF front[k][1] = item[1] THEN item ELSE front[k]]
             ELSE Append(front, item)

Colors_init(colors) ==
    LET d == OrderedDict(colors)
    IN  [colors |-> d, keys |-> [k \in 1..Len(d) |-> d[k][1]]]

\* variant: the message does not name the code
Colors_error_unnamed(code) ==
    Raise(PlottingError(<<"Could not find code",
                          ", you may need to add it to 'code_colors'">>))

Colors_error(code) ==
    Raise(PlottingError(<<"Could not find code: ", code,
                          ", you may need to add it to 'code_colors'">>))

Colors_getitem(self, code) ==
    IF \E k \in 1..Len(self.colors) : self.colors[k][1] = code
    THEN Return(self.colors[CHOOSE k \in 1..Len(self.colors) :
                                self.colors[k][1] = code][2])
    ELSE Colors_error(code)

\* tuple.index is 0-based and returns the first position
Colors_index(self, code) ==
    IF \E k \in 1..Len(self.keys) : self.keys[k] = code
    THEN Return((CHOOSE k \in 1..Len(self.keys) :
                    /\ self.keys[k] = code
                    /\ \A j \in 1..(k-1) : self.keys[j] # code) - 1)
    ELSE Colors_error(code)

code_colors == Colors_init(ScaleColors(raw_code_colors))

-----------------------------------------------------------------------------
(* Data extraction, lines 93-139.                                          *)

\* float(str) on the field strings of the model, in tenths
FloatTable ==
    ("0" :> 0) @@ ("1" :> 10) @@ ("1.0" :> 10) @@ ("2.5" :> 25) @@
    ("-3" :> -30) @@ (" 7" :> 70)

float(s) ==
    IF s \in DOMAIN FloatTable THEN Return(FloatTable[s])
    ELSE Raise(Exception("ValueError"))

\* [float(x), float(y), code] for (x,y,code) in data
CastRow(row) ==
    IF Len(row) # 3 THEN Raise(Exception("ValueError"))
    ELSE IF ~float(row[1]).ok THEN Raise(Exception("ValueError"))
    ELSE IF ~float(row[2]).ok THEN Raise(Exception("ValueError"))
    ELSE Return(<<float(row[1]).value, float(row[2]).value, row[3]>>)

\* variant: rows that do not parse are skipped
read_file_csv_skips_bad_rows(filename, file) ==
    IF file.kind # "text"
    THEN Raise(PlottingError(<<"Could not read file: ">> \o filename))
    ELSE LET data == SelectSeq(SubSeq(file.rows, 2, Len(file.rows)),
                               LAMBDA row : CastRow(row).ok)
         IN  Return([k \in 1..Len(data) |-> CastRow(data[k]).value])

\* a file is [kind |-> "missing"], or [kind |-> "text", rows |-> ...] whose
\* rows are what csv.reader yields, or [kind |-> "workbook", rows |-> ...]
\* whose rows are the cell values of the first sheet
read_file_csv(filename, file) ==
    IF file.kind # "text"
    THEN Raise(PlottingError(<<"Could not read file: ">> \o filename))
    ELSE LET data == SubSeq(file.rows, 2, Len(file.rows))
         IN  IF \E k \in 1..Len(data) : ~CastRow(data[k]).ok
             THEN Raise(PlottingError(<<"Could not read file: ">> \o filename))
             ELSE Return([k \in 1..Len(data) |-> CastRow(data[k]).value])

read_file_xls(filename, file) ==
    IF file.kind # "workbook"
    THEN Raise(Exception("XLRDError"))
    ELSE Return(SubSeq(file.rows, 2, Len(file.rows)))

\* variant: no try/except, and an unsupported extension is a ValueError
read_file_untyped(filename, file) ==
    IF ~IsStr(filename) THEN Raise(Exception("TypeError"))
    ELSE LET extension == splitext(filename)[2]
         IN  IF extension = <<".", "csv">> THEN read_file_csv(filename, file)
             ELSE IF extension = <<".", "xls">>
                  THEN read_file_xls(filename, file)
             ELSE Raise(Exception("ValueError"))

read_file(filename, file) ==
    IF ~IsStr(filename) THEN Raise(Exception("TypeError"))
    ELSE LET extension == splitext(filename)[2]
             body ==
                 IF extension = <<".", "csv">> THEN read_file_csv(filename, file)
                 ELSE IF extension = <<".", "xls">>
                      THEN read_file_xls(filename, file)
                 ELSE Raise(PlottingError(<<"Filetype: ">> \o extension
                                          \o <<" is not supported">>))
         IN  IF body.ok THEN body
             ELSE Raise(PlottingError(<<"Could not read file: ">> \o filename))

\* variant: one group per distinct code
RECURSIVE groupby_unique_code(_, _)
groupby_unique_code(data, groups) ==
    IF data = <<>> THEN groups
    ELSE LET point == Head(data)
             at    == {n \in 1..Len(groups) : groups[n][1] = point[3]}
         IN  IF at # {}
             THEN LET n == CHOOSE n \in at : TRUE
                  IN  groupby_unique_code(Tail(data),
                          [groups EXCEPT ![n] =
                              <<groups[n][1],
                                Append(groups[n][2], SubSeq(point, 1, 2))>>])
             ELSE groupby_unique_code(Tail(data),
                          Append(groups, <<point[3], <<SubSeq(point, 1, 2)>>>>))

\* itertools.groupby keyed on point[2], then (code, [point[:2] ...])
RECURSIVE groupby(_, _)
groupby(data, groups) ==
    IF data = <<>> THEN groups
    ELSE LET point == Head(data)
             n     == Len(groups)
         IN  IF n > 0 /\ groups[n][1] = point[3]
             THEN groupby(Tail(data),
                          [groups EXCEPT ![n] =
                              <<groups[n][1],
                                Append(groups[n][2], SubSeq(point, 1, 2))>>])
             ELSE groupby(Tail(data),
                          Append(groups, <<point[3], <<SubSeq(point, 1, 2)>>>>))

make_series(data) ==
    IF \E k \in 1..Len(data) : Len(data[k]) < 3
    THEN Raise(Exception("IndexError"))
    ELSE Return(groupby(data, <<>>))

-----------------------------------------------------------------------------
(* Plotting, lines 154-189.  A plotting function yields the matplotlib     *)
(* calls it made and the exception it raised, if any.                      *)

x_axis_label == "Distance, East-West (m)"

y_axis_label == "Elevation (m)"

x_min == 0

x_max == 20250

y_min == 120

y_max == 530

Done(made) == [ok |-> TRUE, calls |-> made, exc |-> None]

Failed(made, exc) == [ok |-> FALSE, calls |-> made, exc |-> exc]

\* variant: the sequence is left in iteration order
sorted_not(seq, key) == seq

\* sorted(seq, key=...): stable insertion by key
RECURSIVE sorted(_, _)
sorted(seq, key) ==
    IF seq = <<>> THEN <<>>
    ELSE LET front == sorted(SubSeq(seq, 1, Len(seq)-1), key)
             item  == seq[Len(seq)]
             n     == Cardinality({k \in 1..Len(front) :
                                      key[front[k]] <= key[item]})
         IN  SubSeq(front, 1, n) \o <<item>> \o SubSeq(front, n+1, Len(front))

\* the orders in which a set can be iterated
Orders(S) ==
    {o \in [1..Cardinality(S) -> S] :
        \A i, j \in 1..Cardinality(S) : i # j => o[i] # o[j]}

unique_codes(data_series) == {data_series[k][1] : k \in 1..Len(data_series)}

\* order: the iteration order of the set unique_codes
make_legend(data_series, location, order) ==
    IF \E k \in 1..Len(order) : ~Colors_index(code_colors, order[k]).ok
    THEN Failed(<<>>,
                Colors_index(code_colors,
                    order[CHOOSE k \in 1..Len(order) :
                        /\ ~Colors_index(code_colors, order[k]).ok
                        /\ \A j \in 1..(k-1) :
                              Colors_index(code_colors, order[j]).ok]).exc)
    ELSE LET key == [c \in unique_codes(data_series) |->
                        Colors_index(code_colors, c).value]
             labels == sorted(order, key)
             custom_lines == [k \in 1..Len(labels) |->
                                Colors_getitem(code_colors, labels[k]).value]
         IN  Done(<< <<"legend", custom_lines, labels, location>> >>)

plot_series(series) ==
    LET code  == series[1]
        data  == series[2]
        color == Colors_getitem(code_colors, code)
    IN  IF ~color.ok THEN Failed(<<>>, color.exc)
        ELSE Done(<< <<"plot", [k \in 1..Len(data) |-> data[k][1]],
                              [k \in 1..Len(data) |-> data[k][2]],
                              color.value>> >>)

\* for series in data_series: plot_series(series)
RECURSIVE plot_all(_, _)
plot_all(data_series, made) ==
    IF data_series = <<>> THEN Done(made)
    ELSE LET r == plot_series(Head(data_series))
         IN  IF ~r.ok THEN Failed(made \o r.calls, r.exc)
             ELSE plot_all(Tail(data_series), made \o r.calls)

\* variant: savefig is called whatever the output path
plot_data_always_saves(data_series, location, output, order) ==
    LET setup  == << <<"subplots">>, <<"set_xlim", x_min, x_max>>,
                     <<"set_ylim", y_min, y_max>> >>
        lines  == plot_all(data_series, setup)
        legend == make_legend(data_series, location, order)
        labels == << <<"xlabel", x_axis_label>>, <<"ylabel", y_axis_label>> >>
    IN  IF ~lines.ok THEN lines
        ELSE IF ~legend.ok THEN Failed(lines.calls, legend.exc)
        ELSE Done(lines.calls \o legend.calls \o labels
                  \o << <<"savefig", output>> >>)

plot_data(data_series, location, output, order) ==
    LET setup  == << <<"subplots">>, <<"set_xlim", x_min, x_max>>,
                     <<"set_ylim", y_min, y_max>> >>
        lines  == plot_all(data_series, setup)
        legend == make_legend(data_series, location, order)
        labels == << <<"xlabel", x_axis_label>>, <<"ylabel", y_axis_label>> >>
    IN  IF ~lines.ok THEN lines
        ELSE IF ~legend.ok THEN Failed(lines.calls, legend.exc)
        ELSE IF output # <<>>
             THEN Done(lines.calls \o legend.calls \o labels
                       \o << <<"savefig", output>> >>)
        ELSE Done(lines.calls \o legend.calls \o labels)

do_plot(input, location, output, file, order) ==
    LET data == read_file(input, file)
    IN  IF ~data.ok THEN Failed(<<>>, data.exc)
        ELSE LET series == make_series(data.value)
             IN  IF ~series.ok THEN Failed(<<>>, series.exc)
                 ELSE LET plotted == plot_data(series.value, location,
                                               output, order)
                      IN  IF ~plotted.ok THEN plotted
                          ELSE Done(plotted.calls \o << <<"show">> >>)

\* the codes whose set make_legend iterates when do_plot gets that far
legend_codes(input, file) ==
    LET data == read_file(input, file)
    IN  IF ~data.ok THEN {}
        ELSE IF ~make_series(data.value).ok THEN {}
        ELSE unique_codes(make_series(data.value).value)

-----------------------------------------------------------------------------
(* The shell, class View, lines 197-281.                                   *)

legend_positions ==
    {"Best", "Upper Right", "Upper Left", "Lower Left", "Lower Right",
     "Center Left", "Center Right", "Lower Center", "Upper Center", "Center"}

\* str.lower on the legend positions
lower ==
    ("Best" :> "best") @@ ("Upper Right" :> "upper right") @@
    ("Upper Left" :> "upper left") @@ ("Lower Left" :> "lower left") @@
    ("Lower Right" :> "lower right") @@ ("Center Left" :> "center left") @@
    ("Center Right" :> "center right") @@ ("Lower Center" :> "lower center") @@
    ("Upper Center" :> "upper center") @@ ("Center" :> "center")

NoInputText == <<"You haven't selected an input file">>

NoOutputText == <<"You haven't named an output file">>

GenericMessage ==
    <<"Something unexpected went wrong, make sure your input file is formated correctly">>

\* os.getcwd() when the program starts
getcwd == <<"/", "home">>

\* what the file dialogs can return: "" when cancelled, else the path typed
\* or picked
DialogPaths ==
    { <<>>,
      <<"a", ".", "csv">>,
      <<"/", "d", "/", "b", ".", "xls">>,
      <<"a", ".", "txt">>,
      <<"d", ".", "d", "/", "a">>,
      <<".", "png">>,
      <<"a", ".", "b", ".", "png">> }

\* contents a selected path can have when Plot reads it
Header == <<"distance", "elevation", "code">>

ShellFiles ==
    { [kind |-> "missing"],
      [kind |-> "text", rows |-> <<Header>>],
      [kind |-> "text", rows |-> <<Header, <<"0", "1.0", "Q3a">>,
                                   <<"1", "2.5", "Q1ta">>,
                                   <<"2.5", "0", "Q3a">> >>],
      [kind |-> "text", rows |-> <<Header, <<"0", "1.0", "Q3a">>,
                                   <<"1", "2.5", "zz">> >>],
      [kind |-> "text", rows |-> <<Header, <<"0", "abc", "Q3a">> >>],
      [kind |-> "workbook", rows |-> <<Header, <<0, 10, "eQw">>,
                                       <<10, 25, "eQw">> >>],
      [kind |-> "workbook", rows |-> << <<"distance", "elevation">>,
                                        <<0, 10>> >>] }

\* View.__init__
Init ==
    /\ selected_file = <<>>
    /\ output_file = <<>>
    /\ working_dir = getcwd
    /\ input_dialog = NoInputText
    /\ output_dialog = NoOutputText
    /\ legend_position = "Best"
    /\ handler = "__init__"
    /\ path = <<>>
    /\ messages = <<>>
    /\ stdout = <<>>
    /\ raised = None
    /\ calls = <<>>
    /\ failure = None
    /\ fn = "none"
    /\ args = <<>>
    /\ ret = Return(<<>>)

\* variant: only PlottingError is caught
plot_except_domain_only(r) ==
    IF r.ok THEN [messages |-> <<>>, stdout |-> <<>>, raised |-> None]
    ELSE IF r.exc.type = "PlottingError"
         THEN [messages |-> <<r.exc.message>>, stdout |-> <<>>, raised |-> None]
    ELSE [messages |-> <<>>, stdout |-> <<>>, raised |-> r.exc]

\* the try/except of View.plot around the result r of do_plot
plot_except(r) ==
    IF r.ok THEN [messages |-> <<>>, stdout |-> <<>>, raised |-> None]
    ELSE IF r.exc.type = "PlottingError"
         THEN [messages |-> <<r.exc.message>>, stdout |-> <<>>, raised |-> None]
    ELSE [messages |-> <<GenericMessage>>, stdout |-> <<r.exc>>,
          raised |-> None]

\* View.plot: the Plot button
plot ==
    \E file \in ShellFiles :
      \E order \in Orders(legend_codes(selected_file, file)) :
        LET position == lower[legend_position]
            r == do_plot(selected_file, position, output_file, file, order)
            h == plot_except(r)
        IN  /\ handler' = "plot"
            /\ calls' = r.calls
            /\ failure' = r.exc
            /\ messages' = h.messages
            /\ stdout' = h.stdout
            /\ raised' = h.raised
            /\ UNCHANGED <<selected_file, output_file, working_dir,
                           input_dialog, output_dialog, legend_position, path>>
            /\ UNCHANGED call_vars

\* variant: a cancelled dialog keeps the previous selection
select_input_file_keeps_on_cancel ==
    \E p \in DialogPaths \cup {EMPTY_TUPLE} :
        /\ handler' = "select_input_file"
        /\ path' = p
        /\ selected_file' = IF p \in {<<>>, EMPTY_TUPLE} THEN selected_file
                            ELSE p
        /\ IF IsStr(p)
           THEN /\ working_dir' = dirname(p)
                /\ input_dialog' = IF p \notin {<<>>, EMPTY_TUPLE}
                                   THEN <<"You've selected: ">> \o p
                                   ELSE NoInputText
                /\ raised' = None
           ELSE /\ raised' = Exception("TypeError")
                /\ UNCHANGED <<working_dir, input_dialog>>
        /\ messages' = <<>>
        /\ stdout' = <<>>
        /\ calls' = <<>>
        /\ failure' = None
        /\ UNCHANGED <<output_file, output_dialog, legend_position>>
        /\ UNCHANGED call_vars

\* View.select_input_file; p is what askopenfilename returns
select_input_file ==
    \E p \in DialogPaths \cup {EMPTY_TUPLE} :
        /\ handler' = "select_input_file"
        /\ path' = p
        /\ selected_file' = p
        /\ IF IsStr(p)
           THEN /\ working_dir' = dirname(p)
                /\ input_dialog' = IF p \notin {<<>>, EMPTY_TUPLE}
                                   THEN <<"You've selected: ">> \o p
                                   ELSE NoInputText
                /\ raised' = None
           ELSE \* os.path.dirname(()) raises out of the callback
                /\ raised' = Exception("TypeError")
                /\ UNCHANGED <<working_dir, input_dialog>>
        /\ messages' = <<>>
        /\ stdout' = <<>>
        /\ calls' = <<>>
        /\ failure' = None
        /\ UNCHANGED <<output_file, output_dialog, legend_position>>
        /\ UNCHANGED call_vars

\* View.select_output_file; p is what asksaveasfilename returns
select_output_file ==
    \E p \in DialogPaths :
        /\ handler' = "select_output_file"
        /\ path' = p
        /\ working_dir' = dirname(p)
        /\ output_file' = splitext(p)[1]
        /\ output_dialog' = IF splitext(p)[1] # <<>>
                            THEN <<"Plot will be saved to: ">> \o splitext(p)[1]
                                 \o <<".", "png">>
                            ELSE NoOutputText
        /\ raised' = None
        /\ messages' = <<>>
        /\ stdout' = <<>>
        /\ calls' = <<>>
        /\ failure' = None
        /\ UNCHANGED <<selected_file, input_dialog, legend_position>>
        /\ UNCHANGED call_vars

\* the OptionMenu bound to legend_position
set_legend_position ==
    \E choice \in legend_positions :
        /\ handler' = "set_legend_position"
        /\ legend_position' = choice
        /\ raised' = None
        /\ messages' = <<>>
        /\ stdout' = <<>>
        /\ calls' = <<>>
        /\ failure' = None
        /\ UNCHANGED <<selected_file, output_file, working_dir, input_dialog,
                       output_dialog, path>>
        /\ UNCHANGED call_vars

Next ==
    \/ plot
    \/ select_input_file
    \/ select_output_file
    \/ set_legend_position

Spec == Init /\ [][Next]_vars

-----------------------------------------------------------------------------
(* Calls of the pure functions on bounded inputs.  The shell stays as      *)
(* View.__init__ leaves it.                                                *)

ShellAtInit ==
    /\ selected_file = <<>>
    /\ output_file = <<>>
    /\ working_dir = getcwd
    /\ input_dialog = NoInputText
    /\ output_dialog = NoOutputText
    /\ legend_position = "Best"
    /\ handler = "__init__"
    /\ path = <<>>
    /\ messages = <<>>
    /\ stdout = <<>>
    /\ raised = None
    /\ calls = <<>>
    /\ failure = None

\* sequences over S of length at most n
SeqsUpTo(S, n) == UNION {[1..m -> S] : m \in 0..n}

\* --- read_file -----------------------------------------------------------

XFields == {"0", " 7", "abc"}

YFields == {"1.0", ""}

CodeFields == {"Q1ta", "zz"}

TextRows ==
    {<<x, y, c>> : x \in XFields, y \in YFields, c \in CodeFields}
    \cup { <<>>, <<"0", "1.0">>, <<"0", "1.0", "Q1ta", "extra">> }

TextFiles ==
    {[kind |-> "text", rows |-> <<>>]}
    \cup {[kind |-> "text", rows |-> <<Header>> \o data] :
            data \in SeqsUpTo(TextRows, MaxRows)}

ReaderFiles ==
    TextFiles \cup {f \in ShellFiles : f.kind # "text"}

ReaderPaths ==
    { <<>>, <<"a", ".", "csv">>, <<"/", "d", "/", "b", ".", "xls">>,
      <<"a", ".", "txt">>, <<"d", ".", "d", "/", "a">>, <<".", "csv">> }

InitReader ==
    /\ ShellAtInit
    /\ fn = "none"
    /\ args \in ReaderPaths \X ReaderFiles
    /\ ret = Return(<<>>)

call_read_file ==
    /\ fn = "none"
    /\ fn' = "read_file"
    /\ ret' = read_file(args[1], args[2])
    /\ UNCHANGED <<args, shell_vars>>

NextReader == call_read_file

SpecReader == InitReader /\ [][NextReader]_vars

\* --- make_series ---------------------------------------------------------

SeriesCodes == {"A", "B", ""}

CodedPoints == {<<0, 0, c>> : c \in SeriesCodes} \cup
               {<<10, 25, c>> : c \in SeriesCodes}

InitSeries ==
    /\ ShellAtInit
    /\ fn = "none"
    /\ args \in {<<data>> : data \in SeqsUpTo(CodedPoints, MaxPoints)}
    /\ ret = Return(<<>>)

call_make_series ==
    /\ fn = "none"
    /\ fn' = "make_series"
    /\ ret' = make_series(args[1])
    /\ UNCHANGED <<args, shell_vars>>

NextSeries == call_make_series

SpecSeries == InitSeries /\ [][NextSeries]_vars

\* --- Colors --------------------------------------------------------------

LookupCodes == {raw_code_colors[k][1] : k \in 1..Len(raw_code_colors)}
               \cup {"zz", ""}

SmallPairs ==
    { <<"Q1ta", <<0, 0, 255>> >>, <<"zz", <<255, 0, 0>> >>,
      <<"Q3a", <<0, 0, 255>> >> }

\* configurations: code_colors as shipped, and short ones with unique codes
Configs ==
    {raw_code_colors} \cup
    {c \in SeqsUpTo(SmallPairs, MaxConfig) :
        \A i, j \in 1..Len(c) : i # j => c[i][1] # c[j][1]}

InitColors ==
    /\ ShellAtInit
    /\ fn = "none"
    /\ args \in Configs \X LookupCodes
    /\ ret = Return(<<>>)

call_getitem ==
    /\ fn = "none"
    /\ fn' = "__getitem__"
    /\ ret' = Colors_getitem(Colors_init(ScaleColors(args[1])), args[2])
    /\ UNCHANGED <<args, shell_vars>>

call_index ==
    /\ fn = "none"
    /\ fn' = "index"
    /\ ret' = Colors_index(Colors_init(ScaleColors(args[1])), args[2])
    /\ UNCHANGED <<args, shell_vars>>

NextColors == call_getitem \/ call_index

SpecColors == InitColors /\ [][NextColors]_vars

\* --- make_legend ---------------------------------------------------------

LegendSeries ==
    {<<c, << <<0, 0>> >> >> : c \in {"Q1ta", "Q3a", "Q8c", "eQw", "zz"}}

InitLegend ==
    /\ ShellAtInit
    /\ fn = "none"
    /\ args \in {<<data_series>> :
                    data_series \in SeqsUpTo(LegendSeries, MaxSeries)}
    /\ ret = Return(<<>>)

call_make_legend ==
    /\ fn = "none"
    /\ \E order \in Orders(unique_codes(args[1])) :
          /\ fn' = "make_legend"
          /\ ret' = make_legend(args[1], "best", order)
    /\ UNCHANGED <<args, shell_vars>>

NextLegend == call_make_legend

SpecLegend == InitLegend /\ [][NextLegend]_vars

-----------------------------------------------------------------------------
(* Properties.                                                             *)

CSV == <<".", "csv">>

XLS == <<".", "xls">>

\* the start of the extension of p, characterised without splitext: the last
\* dot of the last path component, when something other than dots precedes
\* it in that component
ExtStarts(p) ==
    {k \in 1..Len(p) :
        /\ p[k] = "."
        /\ \A j \in (k+1)..Len(p) : p[j] \notin {".", "/"}
        /\ \E j \in 1..(k-1) :
              /\ p[j] \notin {".", "/"}
              /\ \A i \in j..k : p[i] # "/"}

Stripped(p) ==
    IF ExtStarts(p) = {} THEN p
    ELSE SubSeq(p, 1, (CHOOSE k \in ExtStarts(p) : TRUE) - 1)

ExtensionOf(p) ==
    IF ExtStarts(p) = {} THEN <<>>
    ELSE SubSeq(p, CHOOSE k \in ExtStarts(p) : TRUE, Len(p))

\* C1: for every path whose extension is neither .csv nor .xls, read_file
\* fails with the unsupported-filetype error 'Filetype: <ext> is not
\* supported', not with the generic 'Could not read file' error.
C1_UnsupportedFiletypeError ==
    (fn = "read_file" /\ ExtensionOf(args[1]) \notin {CSV, XLS})
    => /\ ~ret.ok
       /\ ret.exc = PlottingError(<<"Filetype: ">> \o ExtensionOf(args[1])
                                  \o <<" is not supported">>)

\* --- C2 ---

RECURSIVE Flatten(_)
Flatten(series) ==
    IF series = <<>> THEN <<>>
    ELSE series[1][2] \o Flatten(Tail(series))

RECURSIVE FlattenCodes(_)
FlattenCodes(series) ==
    IF series = <<>> THEN <<>>
    ELSE [k \in 1..Len(series[1][2]) |-> series[1][1]]
         \o FlattenCodes(Tail(series))

Runs(data) ==
    Cardinality({k \in 1..Len(data) : k = 1 \/ data[k][3] # data[k-1][3]})

\* C2: make_series returns (code, points) series whose points, concatenated
\* in order, are the input's (distance, elevation) pairs in input order;
\* every point lies in a series of its own code; and there are as many
\* series as maximal runs of adjacent equal codes.
C2_RunLengthGrouping ==
    fn = "make_series"
    => LET data == args[1]
       IN  /\ ret.ok
           /\ Len(Flatten(ret.value)) = Len(data)
           /\ \A k \in 1..Len(data) :
                 /\ Flatten(ret.value)[k] = <<data[k][1], data[k][2]>>
                 /\ FlattenCodes(ret.value)[k] = data[k][3]
           /\ Len(ret.value) = Runs(data)

\* codes A,A,B,A give three series
C2_Witness ==
    /\ fn = "make_series"
    /\ Len(args[1]) = 4
    /\ [k \in 1..4 |-> args[1][k][3]] = <<"A", "A", "B", "A">>
    /\ ret.ok
    /\ Len(ret.value) = 3

\* --- C3 ---

\* C3: every click on Plot returns to the event loop without an exception
\* leaving View.plot; a PlottingError gives exactly one dialog with its
\* message, any other failure exactly one dialog with the generic message
\* and the error printed, and a run without failure gives no dialog.
C3_PlotCatchesEverything ==
    handler = "plot"
    => /\ raised = None
       /\ failure.type = "None" => messages = <<>> /\ stdout = <<>>
       /\ failure.type = "PlottingError"
             => messages = <<failure.message>> /\ stdout = <<>>
       /\ failure.type \notin {"None", "PlottingError"}
             => messages = <<GenericMessage>> /\ stdout = <<failure>>

\* a failure that is not a PlottingError went through the catch-all
C3_Witness ==
    /\ handler = "plot"
    /\ failure.type = "IndexError"
    /\ messages = <<GenericMessage>>
    /\ raised = None

\* --- C4 ---

WellFormed(row) ==
    /\ Len(row) = 3
    /\ row[1] \in DOMAIN FloatTable
    /\ row[2] \in DOMAIN FloatTable

\* C4: for a .csv file with a header row and N data rows, read_file returns
\* exactly the N coded points in file order when every data row has three
\* fields of which the first two are numbers, and otherwise fails for the
\* whole file with 'Could not read file: <filename>'.
C4_CsvAllOrNothing ==
    (/\ fn = "read_file"
     /\ ExtensionOf(args[1]) = CSV
     /\ args[2].kind = "text"
     /\ Len(args[2].rows) >= 1)
    => LET rows == args[2].rows
           N    == Len(rows) - 1
       IN  IF \A k \in 2..Len(rows) : WellFormed(rows[k])
           THEN /\ ret.ok
                /\ Len(ret.value) = N
                /\ \A k \in 1..N :
                      ret.value[k] = <<FloatTable[rows[k+1][1]],
                                       FloatTable[rows[k+1][2]],
                                       rows[k+1][3]>>
           ELSE /\ ~ret.ok
                /\ ret.exc = PlottingError(<<"Could not read file: ">>
                                           \o args[1])

\* a good row followed by a malformed one: no partial result
C4_Witness ==
    /\ fn = "read_file"
    /\ ExtensionOf(args[1]) = CSV
    /\ args[2].kind = "text"
    /\ Len(args[2].rows) = 3
    /\ WellFormed(args[2].rows[2])
    /\ ~WellFormed(args[2].rows[3])
    /\ ~ret.ok

\* --- C5 ---

\* C5: for a code that is not configured, Colors.__getitem__ and
\* Colors.index both fail with a PlottingError whose message names the code;
\* for a configured code __getitem__ returns its configured colour and index
\* its position in configuration order.
C5_ColorsLookup ==
    fn \in {"__getitem__", "index"}
    => LET colors == args[1]
           code   == args[2]
           at     == {k \in 1..Len(colors) : colors[k][1] = code}
       IN  IF at = {}
           THEN /\ ~ret.ok
                /\ ret.exc.type = "PlottingError"
                /\ ret.exc.message =
                      <<"Could not find code: ", code,
                        ", you may need to add it to 'code_colors'">>
           ELSE LET k == CHOOSE k \in at : TRUE
                IN  /\ ret.ok
                    /\ fn = "__getitem__"
                          => ret.value = [i \in 1..3 |-> <<colors[k][2][i], 255>>]
                    /\ fn = "index" => ret.value = k - 1

\* the rank lookup of an unknown code in the shipped configuration
C5_Witness ==
    /\ fn = "index"
    /\ args[1] = raw_code_colors
    /\ args[2] = "zz"
    /\ ~ret.ok
    /\ ret.exc.message[2] = "zz"

\* --- C6 ---

ConfiguredCodes == {raw_code_colors[k][1] : k \in 1..Len(raw_code_colors)}

Rank(code) == CHOOSE k \in 1..Len(raw_code_colors) : raw_code_colors[k][1] = code

SeriesCodeSet(data_series) == {data_series[k][1] : k \in 1..Len(data_series)}

\* C6: when every series code is configured, make_legend emits exactly one
\* legend entry per distinct code of the series, in the configuration order
\* of the colour mapping, whatever the order of appearance.
C6_LegendInConfigOrder ==
    (fn = "make_legend" /\ SeriesCodeSet(args[1]) \subseteq ConfiguredCodes)
    => /\ ret.ok
       /\ Len(ret.calls) = 1
       /\ LET lines  == ret.calls[1][2]
              labels == ret.calls[1][3]
          IN  /\ Len(labels) = Cardinality(SeriesCodeSet(args[1]))
              /\ {labels[k] : k \in 1..Len(labels)} = SeriesCodeSet(args[1])
              /\ \A i, j \in 1..Len(labels) :
                    i < j => Rank(labels[i]) < Rank(labels[j])
              /\ Len(lines) = Len(labels)
              /\ \A k \in 1..Len(labels) :
                    lines[k] = [i \in 1..3 |->
                        <<raw_code_colors[Rank(labels[k])][2][i], 255>>]

\* series codes B,A,B with A configured before B: entries A then B
C6_Witness ==
    /\ fn = "make_legend"
    /\ [k \in 1..Len(args[1]) |-> args[1][k][1]] = <<"Q3a", "Q1ta", "Q3a">>
    /\ ret.ok
    /\ ret.calls[1][3] = <<"Q1ta", "Q3a">>

\* --- C7 ---

Saves == {k \in 1..Len(calls) : calls[k][1] = "savefig"}

Shows == {k \in 1..Len(calls) : calls[k][1] = "show"}

\* C7: a plot invocation that runs to its end displays the chart exactly
\* once, as its last step, whether or not an output path is set; with an
\* output path the chart is saved to it before being displayed, and with an
\* empty output path nothing is saved.
C7_SaveBeforeShow ==
    handler = "plot"
    => /\ failure = None => Shows = {Len(calls)}
       /\ (failure = None /\ output_file # <<>>) => Cardinality(Saves) = 1
       /\ \A k \in Saves :
             /\ calls[k] = <<"savefig", output_file>>
             /\ \A j \in Shows : k < j
       /\ output_file = <<>> => Saves = {}

\* a plot with an output path that was saved and then shown
C7_Witness ==
    /\ handler = "plot"
    /\ failure = None
    /\ output_file = <<"a">>
    /\ Saves # {}
    /\ Shows # {}

\* --- C8 ---

PNG == <<".", "png">>

C9_NoInputGenericDialog ==
    (handler = "plot" /\ selected_file = <<>>)
    => messages = <<GenericMessage>>

\* C9 amended: Plot with no input selected is not prevented; read_file
\* raises a PlottingError, the shell shows exactly one dialog with that
\* error's message and prints nothing, nothing is drawn, and the input,
\* output and legend-position selections stay as they were.
C9_NoInputDomainError ==
    [][(handler' = "plot" /\ selected_file = <<>>)
       => /\ failure'.type = "PlottingError"
          /\ messages' = <<failure'.message>>
          /\ messages' # <<GenericMessage>>
          /\ stdout' = <<>>
          /\ raised' = None
          /\ calls' = <<>>
          /\ UNCHANGED <<selected_file, output_file, legend_position>>]_vars

\* Plot was clicked with no input selected and a PlottingError was shown
C9_Witness ==
    /\ handler = "plot"
    /\ selected_file = <<>>
    /\ failure.type = "PlottingError"
    /\ messages = <<failure.message>>

\* --- C10 ---

InputSelected == selected_file \notin {<<>>, EMPTY_TUPLE}

OutputSelected == output_file # <<>>

\* C10: the input selection changes only in select_input_file and the
\* output selection only in select_output_file; each takes the result of its
\* dialog whatever was selected before, so that a cancelled dialog leaves no
\* selection; select_input_file leaves the output selection and the legend
\* position alone, select_output_file the input selection and the legend
\* position, and plot all three.
C10_SelectionFrame ==
    [][/\ selected_file' # selected_file => handler' = "select_input_file"
       /\ output_file' # output_file => handler' = "select_output_file"
       /\ handler' = "select_input_file"
             => /\ selected_file' = path'
                /\ path' = <<>> => ~InputSelected'
                /\ UNCHANGED <<output_file, legend_position>>
       /\ handler' = "select_output_file"
             => /\ output_file' = Stripped(path')
                /\ OutputSelected' <=> path' # <<>>
                /\ UNCHANGED <<selected_file, legend_position>>
       /\ handler' = "plot"
             => UNCHANGED <<selected_file, output_file, legend_position>>
      ]_vars

\* an input dialog was cancelled while an output file stayed selected
C10_Witness ==
    /\ handler = "select_input_file"
    /\ path = <<>>
    /\ ~InputSelected
    /\ input_dialog = NoInputText
    /\ OutputSelected

====
